---- MODULE Spec2Model ----
(***************************************************************************)
(* Model of the leaf routines of functions/common.py:                      *)
(*   daterange_interval           (calendar-month date bucketing)          *)
(*   extract_lease_area_outlines  (KML placemark polygon extraction)       *)
(*   find_coords                  (coordinate text parsing)                *)
(*                                                                         *)
(* Dates are modelled at day granularity as day ordinals counted from      *)
(* EpochYear-01-01 (ordinal 0), with the proleptic Gregorian calendar.     *)
(* A Python exception is modelled as a result record whose status is       *)
(* "raised" and whose error field names the exception class.               *)
(***************************************************************************)
EXTENDS Integers, Sequences, FiniteSets, TLC

VARIABLES interval, start_date, end_date, dates_pc, dates_result,
          coord_input, elem, coords_pc, coords_result,
          kml_input, doc, kml_pc, kml_result

vars == <<interval, start_date, end_date, dates_pc, dates_result,
          coord_input, elem, coords_pc, coords_result,
          kml_input, doc, kml_pc, kml_result>>

dates_vars == <<interval, start_date, end_date, dates_pc, dates_result>>
coords_vars == <<coord_input, elem, coords_pc, coords_result>>
kml_vars == <<kml_input, doc, kml_pc, kml_result>>

(***************************************************************************)
(* Bounds of the explored input space.                                     *)
(***************************************************************************)
\* dates range over the day ordinals 0..MaxDay
MaxDay == 75

\* the year whose 1 January is day ordinal 0
EpochYear == 2020

\* a structured coordinates text holds 1..MaxTokens tokens
MaxTokens == 2

\* an unstructured coordinates text holds 0..MaxRawLen characters
MaxRawLen == 4

\* a document holds 0..MaxPlacemarks placemarks
MaxPlacemarks == 2

\* a document holds 0..MaxRings boundary rings in all
MaxRings == 3

(***************************************************************************)
(* Calendar arithmetic (datetime / pandas Timestamp at day granularity).   *)
(***************************************************************************)
IsLeap(y) == (y % 4 = 0 /\ y % 100 # 0) \/ y % 400 = 0

DaysInMonth(y, m) ==
    IF m = 2 THEN (IF IsLeap(y) THEN 29 ELSE 28)
    ELSE IF m \in {4, 6, 9, 11} THEN 30 ELSE 31

RECURSIVE YMDFrom(_, _, _)
YMDFrom(n, y, m) ==
    IF n < DaysInMonth(y, m) THEN <<y, m, n + 1>>
    ELSE IF m = 12 THEN YMDFrom(n - DaysInMonth(y, m), y + 1, 1)
    ELSE YMDFrom(n - DaysInMonth(y, m), y, m + 1)

\* calendar date <<year, month, day>> of a day ordinal
YMD(n) == YMDFrom(n, EpochYear, 1)

RECURSIVE DaysBeforeMonth(_, _)
DaysBeforeMonth(y, m) ==
    IF m = 1 THEN 0 ELSE DaysBeforeMonth(y, m - 1) + DaysInMonth(y, m - 1)

\* day ordinal of a calendar date of EpochYear: dt.datetime(EpochYear, m, d)
Day(m, d) == DaysBeforeMonth(EpochYear, m) + d - 1

\* dt.timedelta(days=k) added to a date
PlusDays(n, k) == n + k

\* pandas MonthEnd.rollforward: the month end on or after day n
MonthEndOnOrAfter(n) ==
    LET d == YMD(n) IN n + (DaysInMonth(d[1], d[2]) - d[3])

RECURSIVE date_range_from(_, _)
date_range_from(cur, stop) ==
    IF cur > stop THEN <<>>
    ELSE <<cur>> \o date_range_from(MonthEndOnOrAfter(cur + 1), stop)

\* pd.date_range(start, end, freq='M'): the month-end days d with
\* start <= d <= end, ascending
date_range(start, stop) == date_range_from(MonthEndOnOrAfter(start), stop)

(***************************************************************************)
(* daterange_interval                                                      *)
(***************************************************************************)
Returned(v) == [status |-> "returned", error |-> "none", value |-> v]

Raised(e) == [status |-> "raised", error |-> e, value |-> <<>>]

\* line 28: if dr + dt.timedelta(days=1) != end_date
TrailingNeeded(dr, stop) == PlusDays(dr, 1) # stop

\* lines 20-27: the buckets built by the loop over the month ends
LoopBuckets(daterange, start) ==
    [start |-> [i \in 1..Len(daterange) |->
                    IF i = 1 THEN start ELSE PlusDays(daterange[i - 1], 1)],
     end   |-> daterange]

daterange_interval(intvl, start, stop) ==
    IF intvl = "monthly"
    THEN LET daterange == date_range(start, stop)
             b == LoopBuckets(daterange, start)
         IN  IF Len(daterange) = 0
             THEN \* line 28 reads the loop variable dr, never bound
                  Raised("UnboundLocalError")
             ELSE LET dr == daterange[Len(daterange)]
                  IN  IF TrailingNeeded(dr, stop)
                      THEN Returned([start |-> Append(b.start, PlusDays(dr, 1)),
                                     end   |-> Append(b.end, stop)])
                      ELSE Returned(b)
    ELSE \* line 32 reads start and end, never bound
         Raised("UnboundLocalError")

(***************************************************************************)
(* Strings are sequences of one-character strings.                         *)
(***************************************************************************)
RECURSIVE split(_, _)
\* str.split(sep) for a one-character sep: every occurrence separates,
\* adjacent separators give empty strings, "".split(sep) is ['']
split(s, sep) ==
    IF \A k \in 1..Len(s) : s[k] # sep THEN <<s>>
    ELSE LET k == CHOOSE k \in 1..Len(s) :
                      s[k] = sep /\ \A j \in 1..(k - 1) : s[j] # sep
         IN  <<SubSeq(s, 1, k - 1)>> \o split(SubSeq(s, k + 1, Len(s)), sep)

Whitespace == {" ", "\n", "\t"}

RECURSIVE lstrip(_)
lstrip(s) ==
    IF s # <<>> /\ s[1] \in Whitespace THEN lstrip(Tail(s)) ELSE s

RECURSIVE rstrip(_)
rstrip(s) ==
    IF s # <<>> /\ s[Len(s)] \in Whitespace
    THEN rstrip(SubSeq(s, 1, Len(s) - 1)) ELSE s

DigitVal == ("0" :> 0) @@ ("1" :> 1) @@ ("2" :> 2) @@ ("3" :> 3) @@ ("4" :> 4)
            @@ ("5" :> 5) @@ ("6" :> 6) @@ ("7" :> 7) @@ ("8" :> 8) @@ ("9" :> 9)

IsDigit(c) == c \in DOMAIN DigitVal

RECURSIVE DigitsToNat(_)
DigitsToNat(ds) ==
    IF ds = <<>> THEN 0
    ELSE DigitsToNat(SubSeq(ds, 1, Len(ds) - 1)) * 10 + DigitVal[ds[Len(ds)]]

RECURSIVE Normalize(_, _)
\* the decimal m * 10^(-e) without trailing zeros in its fraction
Normalize(m, e) ==
    IF m = 0 THEN [m |-> 0, e |-> 0]
    ELSE IF e > 0 /\ m % 10 = 0 THEN Normalize(m \div 10, e - 1)
    ELSE [m |-> m, e |-> e]

\* the number a decimal literal denotes: two literals denote the same
\* double exactly when their normalized decimals agree (short literals)
FloatValue(neg, digits, fracLen) ==
    Normalize((IF neg THEN -1 ELSE 1) * DigitsToNat(digits), fracLen)

\* np.float(x), an alias of the builtin float(x), on strings over digits,
\* sign, point and whitespace: surrounding whitespace is stripped, then
\* [sign] (digits [. [digits]] | . digits) is required (exponents, inf,
\* nan and underscores lie outside the modelled alphabet)
float(x) ==
    LET s      == rstrip(lstrip(x))
        signed == s # <<>> /\ s[1] \in {"-", "+"}
        body   == IF signed THEN Tail(s) ELSE s
        dots   == {k \in 1..Len(body) : body[k] = "."}
        wellformed ==
            /\ \A k \in 1..Len(body) : IsDigit(body[k]) \/ body[k] = "."
            /\ Cardinality(dots) <= 1
            /\ \E k \in 1..Len(body) : IsDigit(body[k])
        digits == SelectSeq(body, IsDigit)
        fracLen == IF dots = {} THEN 0
                   ELSE Len(body) - (CHOOSE k \in dots : TRUE)
    IN  IF wellformed
        THEN [ok |-> TRUE, val |-> FloatValue(signed /\ s[1] = "-", digits, fracLen)]
        ELSE [ok |-> FALSE, val |-> [m |-> 0, e |-> 0]]

(***************************************************************************)
(* Element trees (xml.etree.ElementTree): a tree is the preorder sequence  *)
(* of its nodes, each with its tag (namespace omitted), its depth and its  *)
(* text; the empty text stands for None (an element without text).         *)
(***************************************************************************)
Node(tag, depth, text) == [tag |-> tag, depth |-> depth, text |-> text]

Descendants(tree, i) ==
    {j \in (i + 1)..Len(tree) :
        \A k \in (i + 1)..j : tree[k].depth > tree[i].depth}

Children(tree, i) ==
    {j \in Descendants(tree, i) : tree[j].depth = tree[i].depth + 1}

RECURSIVE SeqOfSet(_)
\* node indices in document order
SeqOfSet(S) ==
    IF S = {} THEN <<>>
    ELSE LET m == CHOOSE m \in S : \A n \in S : m <= n
         IN  <<m>> \o SeqOfSet(S \ {m})

RECURSIVE select_descendant(_, _, _)
\* ElementPath step //tag: for each context node, its proper descendants
\* with that tag, in document order
select_descendant(tree, context, tag) ==
    IF context = <<>> THEN <<>>
    ELSE SeqOfSet({j \in Descendants(tree, Head(context)) : tree[j].tag = tag})
         \o select_descendant(tree, Tail(context), tag)

RECURSIVE select_child(_, _, _)
\* ElementPath step /tag: for each context node, its children with that tag
select_child(tree, context, tag) ==
    IF context = <<>> THEN <<>>
    ELSE SeqOfSet({j \in Children(tree, Head(context)) : tree[j].tag = tag})
         \o select_child(tree, Tail(context), tag)

RECURSIVE select_children(_, _, _)
select_children(tree, context, tags) ==
    IF tags = <<>> THEN context
    ELSE select_children(tree, select_child(tree, context, Head(tags)), Tail(tags))

\* elem.iterfind('.//t1/t2/...') for the node i of the tree
iterfind(tree, i, path) ==
    select_children(tree, select_descendant(tree, <<i>>, Head(path)), Tail(path))

\* line 45
findouter == <<"outerBoundaryIs", "LinearRing", "coordinates">>

\* line 46, mutated: the inner lookup uses the outer path
findinner_outer == <<"outerBoundaryIs", "LinearRing", "coordinates">>

\* line 46
findinner == <<"innerBoundaryIs", "LinearRing", "coordinates">>

(***************************************************************************)
(* find_coords                                                             *)
(***************************************************************************)
\* line 70, mutated: latitude first
CoordPair_swapped(lon, lat) == <<lat, lon>>

\* line 70: [np.float(splitter[0]), np.float(splitter[1])]
CoordPair(lon, lat) == <<lon, lat>>

RECURSIVE parse_tokens(_, _)
\* lines 68-70 for the tokens of one coordinates element, starting from
\* the coordlist collected so far
parse_tokens(coord_strlst, coordlist) ==
    IF coord_strlst = <<>> THEN Returned(coordlist)
    ELSE LET splitter == split(Head(coord_strlst), ",")
             lon == float(splitter[1])
         IN  IF ~lon.ok THEN Raised("ValueError")
             ELSE IF Len(splitter) < 2 THEN Raised("IndexError")
             ELSE LET lat == float(splitter[2])
                  IN  IF ~lat.ok THEN Raised("ValueError")
                      ELSE parse_tokens(Tail(coord_strlst),
                                        Append(coordlist, CoordPair(lon.val, lat.val)))

RECURSIVE parse_rings_last(_, _, _)
\* lines 65-70, mutated: coordlist is emptied for every coordinates
\* element, so only the last ring found is kept
parse_rings_last(tree, found, coordlist) ==
    IF found = <<>> THEN Returned(coordlist)
    ELSE LET ls == tree[Head(found)]
         IN  IF ls.text = <<>>
             THEN Raised("AttributeError")
             ELSE LET r == parse_tokens(split(ls.text, " "), <<>>)
                  IN  IF r.status = "raised" THEN r
                      ELSE parse_rings_last(tree, Tail(found), r.value)

RECURSIVE parse_rings(_, _, _)
\* lines 66-70 for the coordinates elements found
parse_rings(tree, found, coordlist) ==
    IF found = <<>> THEN Returned(coordlist)
    ELSE LET ls == tree[Head(found)]
         IN  IF ls.text = <<>>
             THEN \* ls.text is None
                  Raised("AttributeError")
             ELSE LET r == parse_tokens(split(ls.text, " "), coordlist)
                  IN  IF r.status = "raised" THEN r
                      ELSE parse_rings(tree, Tail(found), r.value)

find_coords(tree, i, findstr) ==
    parse_rings(tree, iterfind(tree, i, findstr), <<>>)

(***************************************************************************)
(* extract_lease_area_outlines                                             *)
(***************************************************************************)
\* lines 51-53: the entry of one name element of the placemark pm
RECURSIVE process_names(_, _, _, _)
process_names(tree, pm, nms, polygon_dict) ==
    IF nms = <<>> THEN Returned(polygon_dict)
    ELSE LET nm    == tree[Head(nms)]
             outer == find_coords(tree, pm, findouter)
             inner == find_coords(tree, pm, findinner)
         IN  IF outer.status = "raised" THEN outer
             ELSE IF inner.status = "raised" THEN inner
             ELSE process_names(tree, pm, Tail(nms),
                      (nm.text :> [outer |-> outer.value, inner |-> inner.value])
                          @@ polygon_dict)

\* lines 49-53: the loop over the placemarks found
RECURSIVE process_placemarks(_, _, _)
process_placemarks(tree, pms, polygon_dict) ==
    IF pms = <<>> THEN Returned(polygon_dict)
    ELSE LET r == process_names(tree, Head(pms),
                                select_child(tree, <<Head(pms)>>, "name"),
                                polygon_dict)
         IN  IF r.status = "raised" THEN r
             ELSE process_placemarks(tree, Tail(pms), r.value)

\* the parsed document is the tree; its root is node 1
extract_lease_area_outlines(tree) ==
    process_placemarks(tree, iterfind(tree, 1, <<"Placemark">>), <<>>)

(***************************************************************************)
(* Inputs: date ranges, coordinate texts and documents.                    *)
(***************************************************************************)
Intervals == {"monthly", "divergence_hourly_avg_hovmoller"}

RECURSIVE Join(_, _)
Join(strs, sep) ==
    IF strs = <<>> THEN <<>>
    ELSE IF Len(strs) = 1 THEN strs[1]
    ELSE strs[1] \o sep \o Join(Tail(strs), sep)

\* numeric literals with the numbers they denote
Literals ==
    { [txt |-> <<"-", "7", "4", ".", "0">>, val |-> [m |-> -74, e |-> 0]],
      [txt |-> <<"3", "9", ".", "1">>,      val |-> [m |-> 391, e |-> 1]],
      [txt |-> <<"7">>,                     val |-> [m |-> 7,   e |-> 0]] }

\* a token lon,lat or lon,lat,0
Tokens == [lon : Literals, lat : Literals, alt : BOOLEAN]

TokenText(t) ==
    t.lon.txt \o <<",">> \o t.lat.txt \o (IF t.alt THEN <<",", "0">> ELSE <<>>)

Separators == { <<" ">>, <<" ", " ">>, <<"\n">> }

RawAlphabet == {"7", "-", ".", ",", " ", "\n"}

\* a coordinates text: tokens joined by a separator, or raw characters
CoordInputs ==
    { [toks |-> t, sep |-> sp, raw |-> <<>>] :
          t \in UNION {[1..n -> Tokens] : n \in 1..MaxTokens}, sp \in Separators }
    \cup
    { [toks |-> <<>>, sep |-> <<>>, raw |-> r] :
          r \in UNION {[1..n -> RawAlphabet] : n \in 0..MaxRawLen} }

CoordText(in) ==
    IF in.toks # <<>>
    THEN Join([k \in 1..Len(in.toks) |-> TokenText(in.toks[k])], in.sep)
    ELSE in.raw

\* a placemark holding one polygon whose outer ring has the given text
RingElem(text) ==
    << Node("Placemark", 0, <<>>),
       Node("Polygon", 1, <<>>),
       Node("outerBoundaryIs", 2, <<>>),
       Node("LinearRing", 3, <<>>),
       Node("coordinates", 4, text) >>

\* the name elements of a placemark: none, or one with text A or B
NameChoices == { <<>>, << <<"A">> >>, << <<"B">> >> }

RECURSIVE RingSeqs(_, _)
\* the ring counts of n placemarks holding at most budget rings in all
RingSeqs(n, budget) ==
    IF n = 0 THEN { <<>> }
    ELSE UNION { UNION { { <<[outer |-> o, inner |-> i]>> \o rest :
                               rest \in RingSeqs(n - 1, budget - o - i) } :
                         i \in 0..(budget - o) } :
                 o \in 0..budget }

KmlInputs ==
    UNION { { [names |-> nm, rings |-> rg, wrapped |-> w, doublespaced |-> b] :
                  nm \in [1..n -> NameChoices], rg \in RingSeqs(n, MaxRings),
                  w \in BOOLEAN, b \in BOOLEAN } :
            n \in 0..MaxPlacemarks }

DigitChar(k) == CHOOSE c \in DOMAIN DigitVal : DigitVal[c] = k

\* the text of ring r of a kind of placemark p: two tokens, -7p,3r.5 and
\* -7p.5,4r,0 for an outer ring, -7p,3r.2 and -7p.5,4r,0 for an inner one
RingText(p, kind, r, sep) ==
    <<"-", "7", DigitChar(p), ",", "3", DigitChar(r), ".",
      IF kind = "outerBoundaryIs" THEN "5" ELSE "2">>
    \o sep \o
    <<"-", "7", DigitChar(p), ".", "5", ",", "4", DigitChar(r), ",", "0">>

RECURSIVE RingNodes(_, _, _, _, _)
\* rings r..count of one kind: boundary > LinearRing > coordinates
RingNodes(p, kind, r, count, ctx) ==
    IF r > count THEN <<>>
    ELSE << Node(kind, ctx.depth, <<>>),
            Node("LinearRing", ctx.depth + 1, <<>>),
            Node("coordinates", ctx.depth + 2, RingText(p, kind, r, ctx.sep)) >>
         \o RingNodes(p, kind, r + 1, count, ctx)

\* placemark p of a document: its name elements, then its geometry, a
\* Polygon holding the rings, wrapped or not in a MultiGeometry that also
\* holds a Point with coordinates of its own
PlacemarkNodes(in, p) ==
    LET g   == IF in.wrapped THEN 4 ELSE 3
        sep == IF in.doublespaced /\ p = Len(in.names) THEN <<" ", " ">> ELSE <<" ">>
        ctx == [depth |-> g + 1, sep |-> sep]
    IN  << Node("Placemark", 2, <<>>) >>
        \o [k \in 1..Len(in.names[p]) |-> Node("name", 3, in.names[p][k])]
        \o (IF in.wrapped
            THEN << Node("MultiGeometry", 3, <<>>),
                    Node("Point", 4, <<>>),
                    Node("coordinates", 5, <<"-", "7", "4", ",", "3", "9", ",", "0">>) >>
            ELSE <<>>)
        \o << Node("Polygon", g, <<>>) >>
        \o RingNodes(p, "outerBoundaryIs", 1, in.rings[p].outer, ctx)
        \o RingNodes(p, "innerBoundaryIs", 1, in.rings[p].inner, ctx)

RECURSIVE PlacemarksFrom(_, _)
PlacemarksFrom(in, p) ==
    IF p > Len(in.names) THEN <<>>
    ELSE PlacemarkNodes(in, p) \o PlacemarksFrom(in, p + 1)

\* the element tree ET.parse gives for the document
KmlTree(in) ==
    << Node("kml", 0, <<>>), Node("Document", 1, <<>>) >> \o PlacemarksFrom(in, 1)

(***************************************************************************)
(* State machine: each specification draws the inputs of one routine and   *)
(* applies the routine to them.                                            *)
(***************************************************************************)
NoResult == [status |-> "none", error |-> "none", value |-> <<>>]

DatesIdle ==
    /\ interval = "monthly"
    /\ start_date = 0
    /\ end_date = 0
    /\ dates_pc = "idle"
    /\ dates_result = NoResult

CoordsIdle ==
    /\ coord_input = [toks |-> <<>>, sep |-> <<>>, raw |-> <<>>]
    /\ elem = <<>>
    /\ coords_pc = "idle"
    /\ coords_result = NoResult

KmlIdle ==
    /\ kml_input = [names |-> <<>>, rings |-> <<>>, wrapped |-> FALSE, doublespaced |-> FALSE]
    /\ doc = <<>>
    /\ kml_pc = "idle"
    /\ kml_result = NoResult

DatesInit ==
    /\ interval \in Intervals
    /\ start_date \in 0..MaxDay
    /\ end_date \in 0..MaxDay
    /\ dates_pc = "call"
    /\ dates_result = NoResult
    /\ CoordsIdle
    /\ KmlIdle

CoordsInit ==
    /\ coord_input \in CoordInputs
    /\ elem = RingElem(CoordText(coord_input))
    /\ coords_pc = "call"
    /\ coords_result = NoResult
    /\ DatesIdle
    /\ KmlIdle

KmlInit ==
    /\ kml_input \in KmlInputs
    /\ doc = KmlTree(kml_input)
    /\ kml_pc = "call"
    /\ kml_result = NoResult
    /\ DatesIdle
    /\ CoordsIdle

Call_daterange_interval ==
    /\ dates_pc = "call"
    /\ dates_result' = daterange_interval(interval, start_date, end_date)
    /\ dates_pc' = "done"
    /\ UNCHANGED <<interval, start_date, end_date>>
    /\ UNCHANGED <<coords_vars, kml_vars>>

Call_find_coords ==
    /\ coords_pc = "call"
    /\ coords_result' = find_coords(elem, 1, findouter)
    /\ coords_pc' = "done"
    /\ UNCHANGED <<coord_input, elem>>
    /\ UNCHANGED <<dates_vars, kml_vars>>

Call_extract_lease_area_outlines ==
    /\ kml_pc = "call"
    /\ kml_result' = extract_lease_area_outlines(doc)
    /\ kml_pc' = "done"
    /\ UNCHANGED <<kml_input, doc>>
    /\ UNCHANGED <<dates_vars, coords_vars>>

NextDates == Call_daterange_interval

NextCoords == Call_find_coords

NextKml == Call_extract_lease_area_outlines

SpecDates == DatesInit /\ [][NextDates]_vars

SpecCoords == CoordsInit /\ [][NextCoords]_vars

SpecKml == KmlInit /\ [][NextKml]_vars

Init == DatesInit \/ CoordsInit \/ KmlInit

Next ==
    \/ Call_daterange_interval
    \/ Call_find_coords
    \/ Call_extract_lease_area_outlines

Spec == Init /\ [][Next]_vars

(***************************************************************************)
(* Properties of daterange_interval.                                       *)
(***************************************************************************)
IsMonthEnd(n) == YMD(n)[3] = DaysInMonth(YMD(n)[1], YMD(n)[2])

\* the month-end days lying in [a, b]
MonthEndsIn(a, b) == {d \in a..b : IsMonthEnd(d)}

LastMonthEndIn(a, b) ==
    CHOOSE d \in MonthEndsIn(a, b) : \A x \in MonthEndsIn(a, b) : x <= d

\* the call was for 'monthly' with start_date <= end_date and is over
MonthlyValidDone ==
    dates_pc = "done" /\ interval = "monthly" /\ start_date <= end_date

DatesReturned == dates_result.status = "returned"

starts == dates_result.value.start

ends == dates_result.value.end

\* C1: for 'monthly' and start_date <= end_date the buckets begin at
\* start_date, finish at end_date and cover every day of the range
\* exactly once.
C1_CoverExactlyOnce ==
    MonthlyValidDone =>
        /\ DatesReturned
        /\ Len(starts) >= 1
        /\ Len(starts) = Len(ends)
        /\ starts[1] = start_date
        /\ ends[Len(ends)] = end_date
        /\ \A d \in start_date..end_date :
               Cardinality({i \in 1..Len(starts) : starts[i] <= d /\ d <= ends[i]}) = 1

\* C2: when end_date is itself a month end no trailing bucket is appended:
\* there is one bucket per month end of the range and the last bucket is
\* the one ending on end_date (one bucket for exactly one calendar month).
C2_NoTrailingAfterMonthEnd ==
    (MonthlyValidDone /\ IsMonthEnd(end_date)) =>
        /\ DatesReturned
        /\ Len(ends) = Cardinality(MonthEndsIn(start_date, end_date))
        /\ Len(starts) = Len(ends)
        /\ ends[Len(ends)] = end_date
        /\ starts[Len(starts)] <= end_date

\* C3: whenever the last month end of the range is not end_date,
\* exactly one trailing bucket (last month end + 1 day, end_date) is
\* appended, also when end_date is the first day of a month.
C3_TrailingBucketAsStated ==
    (/\ MonthlyValidDone
     /\ MonthEndsIn(start_date, end_date) # {}
     /\ LastMonthEndIn(start_date, end_date) # end_date) =>
        /\ DatesReturned
        /\ Len(ends) = Cardinality(MonthEndsIn(start_date, end_date)) + 1
        /\ Len(starts) = Len(ends)
        /\ starts[Len(starts)] = LastMonthEndIn(start_date, end_date) + 1
        /\ ends[Len(ends)] = end_date

\* C4: every result returned for 'monthly' and start_date <= end_date has
\* lists of equal length, starts[i] <= ends[i] for every bucket, and each
\* bucket starting one day after the previous one ends.
C4_WellFormed ==
    (MonthlyValidDone /\ DatesReturned) =>
        /\ Len(starts) = Len(ends)
        /\ \A i \in 1..Len(starts) : starts[i] <= ends[i]
        /\ \A i \in 1..(Len(starts) - 1) :
               ends[i] < starts[i + 1] /\ starts[i + 1] = ends[i] + 1

\* C5: a call with end_date < start_date fails with an explicit
\* invalid-range error and returns nothing.
C5_InvalidRangeError ==
    (dates_pc = "done" /\ interval = "monthly" /\ end_date < start_date) =>
        /\ dates_result.status = "raised"
        /\ dates_result.error = "InvalidRangeError"

\* C6: a call with an interval keyword other than 'monthly' fails with an
\* explicit unsupported-interval error and returns nothing.
C6_UnsupportedIntervalError ==
    (dates_pc = "done" /\ interval # "monthly") =>
        /\ dates_result.status = "raised"
        /\ dates_result.error = "UnsupportedIntervalError"

\* C10: when no month end lies in [start_date, end_date] the result is the
\* single bucket (start_date, end_date).
C10_SingleBucketWithinMonth ==
    (MonthlyValidDone /\ MonthEndsIn(start_date, end_date) = {}) =>
        /\ DatesReturned
        /\ starts = <<start_date>>
        /\ ends = <<end_date>>

(***************************************************************************)
(* Properties of find_coords.                                              *)
(***************************************************************************)
\* the pairs the tokens of a structured text denote
TokenPairs(toks) ==
    [k \in 1..Len(toks) |-> <<toks[k].lon.val, toks[k].lat.val>>]

\* C7: for tokens lon,lat[,alt] separated by single spaces, find_coords
\* returns one pair (lon, lat) per token in token order, the first field
\* as longitude, the second as latitude, a third field dropped, signs kept.
C7_PairPerToken ==
    (/\ coords_pc = "done"
     /\ coord_input.toks # <<>>
     /\ coord_input.sep = <<" ">>) =>
        coords_result = Returned(TokenPairs(coord_input.toks))

\* C7 witness: "-74.0,39.1,0 7,-74.0" gives (-74, 39.1) then (7, -74).
C7_Witness ==
    /\ coords_pc = "done"
    /\ CoordText(coord_input) =
           <<"-", "7", "4", ".", "0", ",", "3", "9", ".", "1", ",", "0", " ",
             "7", ",", "-", "7", "4", ".", "0">>
    /\ coords_result.status = "returned"
    /\ coords_result.value =
           << <<[m |-> -74, e |-> 0], [m |-> 391, e |-> 1]>>,
              <<[m |-> 7, e |-> 0], [m |-> -74, e |-> 0]>> >>

\* whitespace that may come before the first or after the last token
Pads == { <<>>, <<" ">>, <<"\n">> }

\* C11: the text is a whitespace-separated token list: tokens separated by
\* one or more spaces or newlines, with or without whitespace before the
\* first and after the last token, give one pair per token in token order
\* and no error.
C11_WhitespaceSeparated ==
    coords_pc = "done" =>
        /\ coord_input.toks # <<>> =>
               coords_result = Returned(TokenPairs(coord_input.toks))
        /\ \A t \in Tokens, lead \in Pads, trail \in Pads :
               (coord_input.toks = <<>>
                /\ coord_input.raw = lead \o TokenText(t) \o trail) =>
                   coords_result = Returned(TokenPairs(<<t>>))

(***************************************************************************)
(* Properties of extract_lease_area_outlines.                              *)
(***************************************************************************)
KmlReturned == kml_pc = "done" /\ kml_result.status = "returned"

\* placemark p has a name element
Named(p) == kml_input.names[p] # <<>>

\* the mapping key of a named placemark
KeyOf(p) == kml_input.names[p][1]

\* a later placemark carries the name of placemark p
NameReusedAfter(p) ==
    \E q \in (p + 1)..Len(kml_input.names) : kml_input.names[q] = kml_input.names[p]

\* C8 as stated: every named placemark without inner-boundary coordinates
\* has an entry whose 'inner' is the empty list, whatever the other
\* placemarks of the document contain.
C8_InnerEmptyAsStated ==
    KmlReturned =>
        \A p \in 1..Len(kml_input.names) :
            (Named(p) /\ kml_input.rings[p].inner = 0) =>
                /\ KeyOf(p) \in DOMAIN kml_result.value
                /\ kml_result.value[KeyOf(p)].inner = <<>>

\* C8 amended: every named placemark without inner-boundary coordinates
\* whose name no later placemark carries has an entry whose 'inner' is the
\* empty list, whatever its outer rings and the other placemarks are.
C8_InnerEmpty ==
    KmlReturned =>
        \A p \in 1..Len(kml_input.names) :
            (Named(p) /\ kml_input.rings[p].inner = 0 /\ ~NameReusedAfter(p)) =>
                /\ KeyOf(p) \in DOMAIN kml_result.value
                /\ kml_result.value[KeyOf(p)].inner = <<>>

\* C8 witness: placemark A with two outer rings and no inner ring, then
\* placemark B with an inner ring: A's entry has four outer pairs and an
\* empty inner list, B's inner list is not empty.
C8_Witness ==
    /\ KmlReturned
    /\ kml_input.names = << << <<"A">> >>, << <<"B">> >> >>
    /\ kml_input.rings = << [outer |-> 2, inner |-> 0], [outer |-> 0, inner |-> 1] >>
    /\ DOMAIN kml_result.value = { <<"A">>, <<"B">> }
    /\ Len(kml_result.value[<<"A">>].outer) = 4
    /\ kml_result.value[<<"A">>].inner = <<>>
    /\ Len(kml_result.value[<<"B">>].inner) = 2

\* C9: if some placemark of the document has no name element the
\* extraction fails instead of returning a mapping.
C9_MissingNameFails ==
    (kml_pc = "done" /\ \E p \in 1..Len(kml_input.names) : ~Named(p)) =>
        kml_result.status = "raised"

\* the two pairs the text of ring r of a kind of placemark p denotes
RingPairs(p, kind, r) ==
    << << [m |-> -(70 + p), e |-> 0],
          [m |-> (30 + r) * 10 + (IF kind = "outerBoundaryIs" THEN 5 ELSE 2), e |-> 1] >>,
       << [m |-> -((70 + p) * 10 + 5), e |-> 1],
          [m |-> 40 + r, e |-> 0] >> >>

RECURSIVE RingsPairs(_, _, _, _)
\* the pairs of rings r..count of a kind of placemark p, in document order
RingsPairs(p, kind, r, count) ==
    IF r > count THEN <<>>
    ELSE RingPairs(p, kind, r) \o RingsPairs(p, kind, r + 1, count)

\* the entry of key k holds all rings of placemark p, outer and inner
\* apart, each list in ring order then token order
EntryHoldsRingsOf(k, p) ==
    /\ k \in DOMAIN kml_result.value
    /\ kml_result.value[k].outer =
           RingsPairs(p, "outerBoundaryIs", 1, kml_input.rings[p].outer)
    /\ kml_result.value[k].inner =
           RingsPairs(p, "innerBoundaryIs", 1, kml_input.rings[p].inner)

\* placemark p contains several outer rings or several inner rings
SeveralRings(p) == kml_input.rings[p].outer >= 2 \/ kml_input.rings[p].inner >= 2

\* C12 as stated: the entry of every named placemark with several outer
\* (or inner) rings holds in 'outer' the pairs of all its outer rings, at
\* any nesting depth, in document order with no ring dropped, and likewise
\* in 'inner' those of its inner rings, the two never mixed.
C12_RingsConcatenatedAsStated ==
    KmlReturned =>
        \A p \in 1..Len(kml_input.names) :
            (Named(p) /\ SeveralRings(p)) => EntryHoldsRingsOf(KeyOf(p), p)

\* C12 amended: the same for every named placemark whose name no later
\* placemark carries (a later placemark of the same name replaces the
\* entry, rings included).
C12_RingsConcatenated ==
    KmlReturned =>
        \A p \in 1..Len(kml_input.names) :
            (Named(p) /\ SeveralRings(p) /\ ~NameReusedAfter(p)) =>
                EntryHoldsRingsOf(KeyOf(p), p)

\* C12 witness: placemark A, its polygon nested in a MultiGeometry, with
\* two outer rings and one inner ring: 'outer' holds the four pairs of
\* ring 1 then ring 2, 'inner' the two pairs of the inner ring.
C12_Witness ==
    /\ KmlReturned
    /\ kml_input.wrapped
    /\ kml_input.names = << << <<"A">> >> >>
    /\ kml_input.rings = << [outer |-> 2, inner |-> 1] >>
    /\ kml_result.value[<<"A">>].outer =
           << << [m |-> -71, e |-> 0], [m |-> 315, e |-> 1] >>,
              << [m |-> -715, e |-> 1], [m |-> 41, e |-> 0] >>,
              << [m |-> -71, e |-> 0], [m |-> 325, e |-> 1] >>,
              << [m |-> -715, e |-> 1], [m |-> 42, e |-> 0] >> >>
    /\ kml_result.value[<<"A">>].inner =
           << << [m |-> -71, e |-> 0], [m |-> 312, e |-> 1] >>,
              << [m |-> -715, e |-> 1], [m |-> 41, e |-> 0] >> >>

====
